---- MODULE Spec2Model ----
(***************************************************************************)
(* The chat client's asynchronous job flow (src/unnamed/part_000, the      *)
(* later revision of src/script.js): submission, the recurring status      *)
(* poll, the fixed-delay finalize callback, the post-finalize status       *)
(* reconciliation, the "new chat" reset, file selection and the download   *)
(* click handler.  The browser's event loop runs one callback at a time,   *)
(* so every action below is one callback run up to its next await; a       *)
(* pending fetch is a request in flight whose response is a later action.  *)
(* Strings that the code inspects (file names, the chat input, data URLs)  *)
(* are sequences of one-character strings.  Timestamps inside the status   *)
(* texts are not modelled: a status text is identified by its template.    *)
(***************************************************************************)
EXTENDS Integers, Sequences, FiniteSets, TLC

VARIABLES
    jobs,                 \* one closure of startProcessingFlow per submission
    chatWindow,           \* the set of child elements of #chatWindow
    welcomeMessage,       \* welcomeMessage.style.display # 'none'
    downloadOutputBtn,    \* downloadOutputBtn.style.display = 'flex'
    processingStatusArea, \* text of #processingStatusArea
    readers,              \* FileReader loads started by handleFileSelection
    downloads,            \* runs of the download click handler
    lastAlert,            \* the dialog shown by the most recent alert(...)
    lastReconciled,       \* history: outcome of the latest reconciliation since
                          \* the download button was last hidden
    sinceReset,           \* history: what was pending at a reset not yet
                          \* followed by a new submission
    lastFile,             \* history: e.target.files[0] of the latest change event
    lastMessageText       \* history: messageText of the latest sendMessage call

vars == <<jobs, chatWindow, welcomeMessage, downloadOutputBtn,
          processingStatusArea, readers, downloads, lastAlert, lastReconciled,
          sinceReset, lastFile, lastMessageText>>

\* ------------------------------------------------------------------ bounds
MaxJobs == 2
MaxPollsInFlight == 1
MaxReaders == 1
MaxDownloads == 1

Jobs == 1..MaxJobs
Downloads == 1..MaxDownloads

\* JavaScript null and undefined, as values no modelled string equals
NULL == <<"null">>
UNDEFINED == <<"undefined">>

\* ------------------------------------------------------- backend contract
\* /api/check_status answers one of these; anything else takes the code's
\* final else branch exactly as "unknown" does.
Statuses == {"unknown", "processing", "completed", "failed"}
\* a fetch either resolves with a body or rejects (network or JSON failure)
NetError == "error"
StatusReplies == Statuses \cup {NetError}
\* /api/get_output: success true ("available"), success false ("missing")
OutputReplies == {"available", "missing", NetError}

\* ------------------------------------------------------------ status texts
TextCleared     == "cleared"
TextPreparing   == "preparing"
TextCompleted   == "completed"
TextFailed      == "failed"
TextWorking     == "working"
TextReady       == "ready"
TextBackendDown == "backend-error"
TextDownloading == "downloading"
TextDownloaded  == "downloaded"

\* --------------------------------------------------------- string helpers
\* String.prototype.trim, lines 246: strips leading and trailing whitespace
RECURSIVE trimStart(_)
trimStart(s) ==
    IF s # <<>> /\ Head(s) = " " THEN trimStart(Tail(s)) ELSE s

RECURSIVE trimEnd(_)
trimEnd(s) ==
    IF s # <<>> /\ s[Len(s)] = " " THEN trimEnd(SubSeq(s, 1, Len(s) - 1)) ELSE s

\* mutant: the input is taken as typed
Mut_trimMissing(s) == s

trim(s) == trimEnd(trimStart(s))

\* String.prototype.toLowerCase on the letters the model's names use
lowerChar(c) ==
    CASE c = "P" -> "p" [] c = "D" -> "d"
      [] c = "F" -> "f"
      [] OTHER -> c

toLowerCase(s) == [i \in 1..Len(s) |-> lowerChar(s[i])]

\* String.prototype.lastIndexOf(ch): 0-based index of the last ch, or -1
lastIndexOf(s, ch) ==
    LET hits == {i \in 1..Len(s) : s[i] = ch}
    IN  IF hits = {} THEN -1 ELSE (CHOOSE i \in hits : \A k \in hits : k <= i) - 1

\* String.prototype.substring(start): a negative start counts as 0
substring(s, start) ==
    LET from == IF start < 0 THEN 0 ELSE start
    IN  SubSeq(s, from + 1, Len(s))

\* String.prototype.split(sep)[1]: the text between the first and the second
\* sep, or undefined when s holds no sep
RECURSIVE upToSep(_, _)
upToSep(s, sep) ==
    IF s = <<>> \/ Head(s) = sep THEN <<>> ELSE <<Head(s)>> \o upToSep(Tail(s), sep)

splitSecond(s, sep) ==
    LET first == upToSep(s, sep)
    IN  IF Len(first) = Len(s) THEN UNDEFINED
        ELSE upToSep(SubSeq(s, Len(first) + 2, Len(s)), sep)

\* ---------------------------------------------------------- chat elements
\* A child element of #chatWindow.  The placeholder and the typing indicator
\* carry the closure of startProcessingFlow that holds a reference to them;
\* the other messages are known by sender and content only, and chatWindow
\* keeps one of each (two equal bubbles are one element of the set).
Message(kind, job, text) == [kind |-> kind, job |-> job, text |-> text]

UserText(text)          == Message("user", 0, text)
\* the upload notice; the file name and size it quotes are not kept
UserFile                == Message("user-file", 0, <<>>)
Placeholder(job)        == Message("placeholder", job, <<>>)
TypingIndicator(job)    == Message("typing", job, <<>>)
AiResponse              == Message("ai", 0, <<>>)
LocalError              == Message("error", 0, <<>>)

\* createMessageElement / createFormattedMessage / showTypingIndicator:
\* chatWindow.appendChild(element)
appendChild(chat, el) == chat \cup {el}

\* el.parentElement is non-null
hasParent(chat, el) == el \in chat

\* mutant: the two removals are missing from the finalize callback
Mut_removeIfAttachedMissing(chat, el) == chat

\* if (el.parentElement) chatWindow.removeChild(el)
removeIfAttached(chat, el) == IF hasParent(chat, el) THEN chat \ {el} ELSE chat

\* ------------------------------------------------------------------- jobs
\* pc: where the finalize callback of the closure stands
\*   "unused"   no live closure uses this slot
\*   "timer"    the 5000 ms timeout is pending
\*   "post"     awaiting fetch(/api/process_prompt) inside simulateAIResponse
\*   "status"   awaiting the reconciling fetch(/api/check_status)
\*   "done"     the callback returned
\*   "rejected" the callback's promise rejected (the reconciling fetch threw)
UnusedJob ==
    [pc |-> "unused", prompt |-> NULL, file_data |-> NULL,
     processingDone |-> FALSE, interval |-> FALSE, polls |-> 0,
     rendered |-> "none",
     \* history fields, written but never read by the actions
     posts |-> 0, body |-> <<NULL, NULL>>, latePolls |-> 0]

\* function startProcessingFlow(userPrompt, fileDataBase64 = null): the
\* closure's variables right after the call
NewJob(userPrompt, fileDataBase64) ==
    [UnusedJob EXCEPT
        !.pc = "timer",
        !.prompt = userPrompt,
        !.file_data = IF fileDataBase64 = UNDEFINED THEN NULL ELSE fileDataBase64,
        !.processingDone = FALSE,
        !.interval = TRUE]

\* A closure whose finalize callback has returned (or rejected), whose
\* interval is cleared and whose polls have all settled can run no more code:
\* its slot is free for the next call of startProcessingFlow.
Finished(job) ==
    /\ job.pc \in {"done", "rejected"}
    /\ ~job.interval
    /\ job.polls = 0

Retire(js) == [j \in Jobs |-> IF Finished(js[j]) THEN UnusedJob ELSE js[j]]

FreeSlots == {j \in Jobs : jobs[j].pc = "unused"}
NextSlot == CHOOSE j \in FreeSlots : \A k \in FreeSlots : j <= k

\* startProcessingFlow, synchronous part: hide the download button, set the
\* "preparing" text, append placeholder and typing indicator, arm both timers
startProcessingFlow(j, userPrompt, fileDataBase64, chat) ==
    /\ downloadOutputBtn' = FALSE
    /\ processingStatusArea' = TextPreparing
    /\ chatWindow' = appendChild(appendChild(chat, Placeholder(j)), TypingIndicator(j))
    /\ jobs' = [jobs EXCEPT ![j] = NewJob(userPrompt, fileDataBase64)]

\* mutant: the catch block is empty, a failed poll shows the ready text
Mut_PollStatusTextSwallowsError(reply) ==
    CASE reply = "completed"  -> TextCompleted
      [] reply = "failed"     -> TextFailed
      [] reply = "processing" -> TextWorking
      [] OTHER                -> TextReady

\* the status text the poll callback writes for a reply
PollStatusText(reply) ==
    CASE reply = "completed"  -> TextCompleted
      [] reply = "failed"     -> TextFailed
      [] reply = "processing" -> TextWorking
      [] reply = NetError     -> TextBackendDown
      [] OTHER                -> TextReady

\* mutant: the reconciliation has the four branches of the poll callback
Mut_ReconcileStatusTextAllBranches(status, before) ==
    CASE status = "completed"  -> TextCompleted
      [] status = "failed"     -> TextFailed
      [] status = "processing" -> TextWorking
      [] OTHER                 -> TextReady

\* the status text after the reconciliation saw status, given the text before
ReconcileStatusText(status, before) ==
    CASE status = "completed" -> TextCompleted
      [] status = "failed"    -> TextFailed
      [] OTHER                -> before

\* mutant: the button is shown whenever the backend is no longer processing
Mut_ReconcileDownloadBtnUnlessProcessing(status, before) ==
    IF status # "processing" THEN TRUE ELSE before

\* the download button after the reconciliation saw status
ReconcileDownloadBtn(status, before) ==
    IF status = "completed" THEN TRUE ELSE before

\* mutant: the two statements are missing, polling is never stopped
Mut_StopPollingMissing(job) == job

\* mutant: clearInterval is left to the next tick of the poll callback
Mut_StopPollingFlagOnly(job) == [job EXCEPT !.processingDone = TRUE]

\* finalize callback, first two statements: processingDone = true;
\* clearInterval(checkStatusInterval)
StopPolling(job) ==
    [job EXCEPT !.processingDone = TRUE, !.interval = FALSE]

\* simulateAIResponse up to its await: the JSON body of the POST
RequestBody(job) == <<job.prompt, job.file_data>>

\* mutant: the request is sent again when the first attempt is not awaited
Mut_IssueProcessPromptTwice(job) ==
    [job EXCEPT !.pc = "post", !.posts = @ + 2, !.body = RequestBody(job)]

IssueProcessPrompt(job) ==
    [job EXCEPT !.pc = "post", !.posts = @ + 1, !.body = RequestBody(job)]

\* ------------------------------------------------------------------ inputs
\* values of chatInput when the user sends
ChatInputs ==
    { <<>>, <<" ">>, <<"h", "i">>, <<" ", "h", "i", " ">> }

MiB == 1024 * 1024
\* file.size > 5 * 1024 * 1024 is refused
MaxFileSize == 5 * 1024 * 1024

File(name, size) == [name |-> name, size |-> size]

\* e.target.files[0] when the picker was closed without a file
NoFile == [name |-> UNDEFINED, size |-> 0]

FileNames ==
    { <<"a", ".", "t", "x", "t">>, <<"a", ".", "P", "d", "F">>,
      <<"a", ".", "e", "x", "e", ".", "d", "o", "c", "x">>,
      <<"a", ".", "e", "x", "e">>, <<"a", ".", "t", "x", "t", ".", "e", "x", "e">>,
      <<"t", "x", "t">>, <<"a", ".", "t", "x">>, <<"a", ".", "p", "d", "f", ".">> }

FileSizes == {0, MiB, MaxFileSize, MaxFileSize + 1, 6 * MiB}

\* every selectable file of the file-selection specification
AllFiles == {File(n, s) : n \in FileNames, s \in FileSizes}

\* the files of the payload specification: a valid one, a valid empty one, a
\* wrong type and an oversized one
FlowFiles ==
    { File(<<"a", ".", "t", "x", "t">>, MiB),
      File(<<"a", ".", "P", "d", "F">>, 0),
      File(<<"a", ".", "e", "x", "e">>, MiB),
      File(<<"a", ".", "p", "d", "f">>, 6 * MiB) }

\* FileReader.readAsDataURL: "data:<type>;base64,<payload>".  "d" stands for
\* the header up to the comma and "b" for a non-empty payload.  For an empty
\* file the result is browser-dependent: the bare "data:" (no comma at all)
\* or a header followed by an empty payload.
ReadResults(file) ==
    IF file.size = 0 THEN { <<"d">>, <<"d", ",">> } ELSE { <<"d", ",", "b">> }

\* the number of poll fetches, of all jobs, that have not settled yet
RECURSIVE PollsInFlight(_, _)
PollsInFlight(js, S) ==
    IF S = {} THEN 0
    ELSE LET j == CHOOSE k \in S : TRUE
         IN  js[j].polls + PollsInFlight(js, S \ {j})

\* some fetch of some job has not settled yet
RequestsInFlight ==
    \E j \in Jobs : jobs[j].polls > 0 \/ jobs[j].pc \in {"post", "status"}

\* some job's interval or timeout is armed
TimersPending ==
    \E j \in Jobs : jobs[j].interval \/ jobs[j].pc = "timer"

\* -------------------------------------------------------- file selection
allowedExtensions ==
    { <<".", "t", "x", "t">>, <<".", "p", "d", "f">>, <<".", "d", "o", "c", "x">> }

\* file.name.substring(file.name.lastIndexOf('.')).toLowerCase()
fileExtension(name) == toLowerCase(substring(name, lastIndexOf(name, ".")))

\* mutant: the extension is compared without lower-casing
Mut_hasAllowedTypeCaseSensitive(file) ==
    substring(file.name, lastIndexOf(file.name, ".")) \in allowedExtensions

\* allowedExtensions.includes(fileExtension)
hasAllowedType(file) == fileExtension(file.name) \in allowedExtensions

\* file.size > 5 * 1024 * 1024
isTooLarge(file) == file.size > MaxFileSize

\* readers without its i-th load
DropReader(rs, i) == SubSeq(rs, 1, i - 1) \o SubSeq(rs, i + 1, Len(rs))

\* ------------------------------------------------------- download handler
\* pc: "unused" | "status" (awaiting check_status) | "output" (awaiting
\* get_output) | "timer1" (1000 ms timeout pending) | "timer3" (3000 ms
\* timeout pending) | "done".  status is the check_status answer the run
\* saw; dialog, askedOutput and navigated record what the run did.
IdleDownload ==
    [pc |-> "unused", status |-> "none", dialog |-> "none",
     askedOutput |-> FALSE, navigated |-> FALSE]

\* mutant: only a job still processing blocks the download
Mut_statusDialogProcessingOnly(status) ==
    IF status = "processing" THEN "wait-processing" ELSE "none"

\* the dialog the handler shows for a check_status answer, "none" to go on
statusDialog(status) ==
    CASE status = "processing" -> "wait-processing"
      [] status = "failed"     -> "failed"
      [] OTHER                 -> "none"

\* mutant: checkData.success is not tested, only a failed fetch stops the run
Mut_outputDialogIgnoresSuccess(reply) ==
    IF reply = NetError THEN "no-connection" ELSE "none"

\* the dialog the handler shows for a get_output outcome, "none" to go on
outputDialog(reply) ==
    CASE reply = NetError  -> "no-connection"
      [] reply = "missing" -> "wait-no-file"
      [] OTHER             -> "none"

\* mutant: both timeouts are armed by the handler, the 3000 ms one is due first
Mut_triggerDownloadClearFirst(run) ==
    [run EXCEPT !.pc = "timer3", !.navigated = TRUE]

\* window.location.href = .../api/download_output; setTimeout(..., 1000)
triggerDownload(run) ==
    [run EXCEPT !.pc = "timer1", !.navigated = TRUE]

FreeDownloads == {d \in Downloads : downloads[d].pc \in {"unused", "done"}}

\* ----------------------------------------------------------------- actions
Init ==
    /\ jobs = [j \in Jobs |-> UnusedJob]
    /\ chatWindow = {}
    /\ welcomeMessage = TRUE
    /\ downloadOutputBtn = FALSE
    /\ processingStatusArea = TextCleared
    /\ readers = <<>>
    /\ downloads = [d \in Downloads |-> IdleDownload]
    /\ lastAlert = "none"
    /\ lastReconciled = "none"
    /\ sinceReset = "none"
    /\ lastFile = NoFile
    /\ lastMessageText = UNDEFINED

\* sendMessage: an input that trims to nothing returns at once
sendMessage(input) ==
    LET messageText == trim(input)
    IN  IF messageText = <<>>
        THEN /\ lastMessageText' = messageText
             /\ UNCHANGED <<jobs, chatWindow, welcomeMessage, downloadOutputBtn,
                            processingStatusArea, readers, downloads, lastAlert,
                            lastReconciled, sinceReset, lastFile>>
        ELSE /\ FreeSlots # {}
             /\ welcomeMessage' = FALSE
             /\ startProcessingFlow(NextSlot, messageText, UNDEFINED,
                    appendChild(chatWindow, UserText(messageText)))
             /\ sinceReset' = "none"
             /\ lastReconciled' = "none"
             /\ lastMessageText' = messageText
             /\ UNCHANGED <<readers, downloads, lastAlert, lastFile>>

\* setInterval callback, every 2000 ms while the interval is armed
PollTick(j) ==
    /\ jobs[j].interval
    /\ PollsInFlight(jobs, Jobs) < MaxPollsInFlight
    /\ jobs' = [jobs EXCEPT ![j] =
                  IF jobs[j].processingDone
                  THEN [@ EXCEPT !.interval = FALSE]
                  ELSE [@ EXCEPT !.polls = @ + 1,
                                 !.latePolls = IF jobs[j].pc = "timer" THEN @ ELSE @ + 1]]
    /\ UNCHANGED <<chatWindow, welcomeMessage, downloadOutputBtn,
                   processingStatusArea, readers, downloads, lastAlert, lastReconciled, sinceReset, lastFile, lastMessageText>>

\* the poll's fetch/json settles: the callback writes the status text
PollResponse(j, reply) ==
    /\ jobs[j].polls > 0
    /\ jobs' = Retire([jobs EXCEPT ![j].polls = @ - 1])
    /\ processingStatusArea' = PollStatusText(reply)
    /\ UNCHANGED <<chatWindow, welcomeMessage, downloadOutputBtn,
                   readers, downloads, lastAlert, lastReconciled, sinceReset, lastFile, lastMessageText>>

\* setTimeout callback after 5000 ms, up to the await inside simulateAIResponse
FinalizeTimer(j) ==
    /\ jobs[j].pc = "timer"
    /\ jobs' = [jobs EXCEPT ![j] = IssueProcessPrompt(StopPolling(jobs[j]))]
    /\ chatWindow' = removeIfAttached(removeIfAttached(chatWindow, Placeholder(j)),
                                      TypingIndicator(j))
    /\ UNCHANGED <<welcomeMessage, downloadOutputBtn, processingStatusArea,
                   readers, downloads, lastAlert, lastReconciled, sinceReset, lastFile, lastMessageText>>

\* simulateAIResponse after its await: render the answer, or the local error
\* when the fetch failed or response.ok was false; then the finalize callback
\* goes on to fetch /api/check_status
ProcessPromptResponse(j, ok) ==
    /\ jobs[j].pc = "post"
    /\ chatWindow' = appendChild(chatWindow, IF ok THEN AiResponse ELSE LocalError)
    /\ jobs' = [jobs EXCEPT ![j].pc = "status",
                            ![j].rendered = IF ok THEN "ai" ELSE "error"]
    /\ UNCHANGED <<welcomeMessage, downloadOutputBtn, processingStatusArea,
                   readers, downloads, lastAlert, lastReconciled, sinceReset, lastFile, lastMessageText>>

\* the reconciling check_status settles.  The callback has no try/catch: a
\* failed fetch rejects its promise and nothing below the await runs.
ReconcileResponse(j, reply) ==
    /\ jobs[j].pc = "status"
    /\ IF reply = NetError
       THEN /\ jobs' = Retire([jobs EXCEPT ![j].pc = "rejected"])
            /\ UNCHANGED <<downloadOutputBtn, processingStatusArea>>
       ELSE /\ jobs' = Retire([jobs EXCEPT ![j].pc = "done"])
            /\ downloadOutputBtn' = ReconcileDownloadBtn(reply, downloadOutputBtn)
            /\ processingStatusArea' = ReconcileStatusText(reply, processingStatusArea)
    /\ lastReconciled' = reply
    /\ UNCHANGED <<chatWindow, welcomeMessage, readers, downloads, lastAlert,
                   sinceReset, lastFile, lastMessageText>>

\* newChatBtn click: clear the chat to the welcome state, hide the download
\* button, clear the status text.  No timer is cleared and no closure is
\* told.  sinceReset records whether only timers, or also requests, were
\* pending at that moment.
newChat ==
    /\ chatWindow' = {}
    /\ welcomeMessage' = TRUE
    /\ downloadOutputBtn' = FALSE
    /\ processingStatusArea' = TextCleared
    /\ sinceReset' = IF RequestsInFlight THEN "requests"
                     ELSE IF TimersPending THEN "timers" ELSE "none"
    /\ lastReconciled' = "none"
    /\ UNCHANGED <<jobs, readers, downloads, lastAlert, lastFile, lastMessageText>>

\* fileInput change event
handleFileSelection(file) ==
    /\ lastFile' = file
    /\ IF file = NoFile
       THEN UNCHANGED <<readers, lastAlert>>
       ELSE IF ~hasAllowedType(file)
       THEN lastAlert' = "bad-type" /\ UNCHANGED readers
       ELSE IF isTooLarge(file)
       THEN lastAlert' = "too-large" /\ UNCHANGED readers
       ELSE /\ Len(readers) < MaxReaders
            /\ readers' = Append(readers, file)
            /\ UNCHANGED lastAlert
    /\ UNCHANGED <<jobs, chatWindow, welcomeMessage, downloadOutputBtn,
                   processingStatusArea, downloads, lastReconciled, sinceReset,
                   lastMessageText>>

\* reader.onload: take the payload out of the data URL, append the upload
\* notice, start the flow with a null prompt
readerOnload(i, result) ==
    /\ i \in 1..Len(readers)
    /\ result \in ReadResults(readers[i])
    /\ FreeSlots # {}
    /\ startProcessingFlow(NextSlot, NULL, splitSecond(result, ","),
           appendChild(chatWindow, UserFile))
    /\ readers' = DropReader(readers, i)
    /\ sinceReset' = "none"
    /\ lastReconciled' = "none"
    /\ UNCHANGED <<welcomeMessage, downloads, lastAlert, lastFile, lastMessageText>>

\* reader.onerror
readerOnerror(i) ==
    /\ i \in 1..Len(readers)
    /\ readers' = DropReader(readers, i)
    /\ lastAlert' = "read-error"
    /\ UNCHANGED <<jobs, chatWindow, welcomeMessage, downloadOutputBtn,
                   processingStatusArea, downloads, lastReconciled, sinceReset,
                   lastFile, lastMessageText>>

\* click on the visible download button: fetch /api/check_status
downloadClick(d) ==
    /\ downloadOutputBtn
    /\ d \in FreeDownloads
    /\ \A k \in FreeDownloads : d <= k
    /\ downloads' = [downloads EXCEPT ![d] = [IdleDownload EXCEPT !.pc = "status"]]
    /\ UNCHANGED <<jobs, chatWindow, welcomeMessage, downloadOutputBtn,
                   processingStatusArea, readers, lastAlert, lastReconciled,
                   sinceReset, lastFile, lastMessageText>>

\* check_status settles: a dialog and return for processing, failed or a
\* failed fetch; otherwise fetch /api/get_output
downloadStatusResponse(d, reply) ==
    /\ downloads[d].pc = "status"
    /\ IF reply = NetError
       THEN /\ downloads' = [downloads EXCEPT ![d].pc = "done",
                                              ![d].dialog = "no-connection"]
            /\ lastAlert' = "no-connection"
       ELSE IF statusDialog(reply) # "none"
       THEN /\ downloads' = [downloads EXCEPT ![d].pc = "done",
                                              ![d].status = reply,
                                              ![d].dialog = statusDialog(reply)]
            /\ lastAlert' = statusDialog(reply)
       ELSE /\ downloads' = [downloads EXCEPT ![d].pc = "output",
                                              ![d].status = reply,
                                              ![d].askedOutput = TRUE]
            /\ UNCHANGED lastAlert
    /\ UNCHANGED <<jobs, chatWindow, welcomeMessage, downloadOutputBtn,
                   processingStatusArea, readers, lastReconciled, sinceReset,
                   lastFile, lastMessageText>>

\* get_output settles: success false or a failed fetch end in a dialog;
\* otherwise "downloading" text, navigation to /api/download_output and the
\* 1000 ms timeout
downloadOutputResponse(d, reply) ==
    /\ downloads[d].pc = "output"
    /\ IF outputDialog(reply) # "none"
       THEN /\ downloads' = [downloads EXCEPT ![d].pc = "done",
                                              ![d].dialog = outputDialog(reply)]
            /\ lastAlert' = outputDialog(reply)
            /\ UNCHANGED processingStatusArea
       ELSE /\ downloads' = [downloads EXCEPT ![d] = triggerDownload(@)]
            /\ processingStatusArea' = TextDownloading
            /\ UNCHANGED lastAlert
    /\ UNCHANGED <<jobs, chatWindow, welcomeMessage, downloadOutputBtn,
                   readers, lastReconciled, sinceReset, lastFile, lastMessageText>>

\* the 1000 ms timeout: "downloaded" text, arm the 3000 ms timeout
downloadTimer1(d) ==
    /\ downloads[d].pc = "timer1"
    /\ downloads' = [downloads EXCEPT ![d].pc = "timer3"]
    /\ processingStatusArea' = TextDownloaded
    /\ UNCHANGED <<jobs, chatWindow, welcomeMessage, downloadOutputBtn,
                   readers, lastAlert, lastReconciled, sinceReset, lastFile, lastMessageText>>

\* the 3000 ms timeout: clear the status text
downloadTimer3(d) ==
    /\ downloads[d].pc = "timer3"
    /\ downloads' = [downloads EXCEPT ![d].pc = "done"]
    /\ processingStatusArea' = TextCleared
    /\ UNCHANGED <<jobs, chatWindow, welcomeMessage, downloadOutputBtn,
                   readers, lastAlert, lastReconciled, sinceReset, lastFile, lastMessageText>>

Next ==
    \/ \E input \in ChatInputs : sendMessage(input)
    \/ \E j \in Jobs : PollTick(j)
    \/ \E j \in Jobs, reply \in StatusReplies : PollResponse(j, reply)
    \/ \E j \in Jobs : FinalizeTimer(j)
    \/ \E j \in Jobs, ok \in BOOLEAN : ProcessPromptResponse(j, ok)
    \/ \E j \in Jobs, reply \in StatusReplies : ReconcileResponse(j, reply)
    \/ newChat

Spec == Init /\ [][Next]_vars

\* The job flow with its scheduling: an armed timeout fires, and a fetch
\* that was issued settles (resolves or rejects).  Nothing is assumed about
\* the user's events or about further ticks of the interval.
Fairness ==
    \A j \in Jobs :
        /\ WF_vars(FinalizeTimer(j))
        /\ WF_vars(\E reply \in StatusReplies : PollResponse(j, reply))
        /\ WF_vars(\E ok \in BOOLEAN : ProcessPromptResponse(j, ok))
        /\ WF_vars(\E reply \in StatusReplies : ReconcileResponse(j, reply))

SpecLive == Init /\ [][Next]_vars /\ Fairness

\* File selection on its own: every file of AllFiles is offered to
\* handleFileSelection; accepted files are read and start a job.
NextFiles ==
    \/ \E file \in AllFiles \cup {NoFile} : handleFileSelection(file)
    \/ \E i \in 1..MaxReaders, result \in {<<"d">>, <<"d", ",">>, <<"d", ",", "b">>} :
          readerOnload(i, result)
    \/ \E i \in 1..MaxReaders : readerOnerror(i)

SpecFiles == Init /\ [][NextFiles]_vars

\* Both kinds of submission up to the POST they send.
NextPayload ==
    \/ \E input \in ChatInputs : sendMessage(input)
    \/ \E file \in FlowFiles : handleFileSelection(file)
    \/ \E i \in 1..MaxReaders, result \in {<<"d">>, <<"d", ",">>, <<"d", ",", "b">>} :
          readerOnload(i, result)
    \/ \E j \in Jobs : FinalizeTimer(j)
    \/ \E j \in Jobs, ok \in BOOLEAN : ProcessPromptResponse(j, ok)
    \/ \E j \in Jobs, reply \in StatusReplies : ReconcileResponse(j, reply)

SpecPayload == Init /\ [][NextPayload]_vars

\* The download handler, started where a job has just been reconciled as
\* completed: answer in the chat, completed text, download button visible.
InitDownload ==
    /\ jobs = [j \in Jobs |-> UnusedJob]
    /\ chatWindow = {UserText(<<"h", "i">>), AiResponse}
    /\ welcomeMessage = FALSE
    /\ downloadOutputBtn = TRUE
    /\ processingStatusArea = TextCompleted
    /\ readers = <<>>
    /\ downloads = [d \in Downloads |-> IdleDownload]
    /\ lastAlert = "none"
    /\ lastReconciled = "completed"
    /\ sinceReset = "none"
    /\ lastFile = NoFile
    /\ lastMessageText = UNDEFINED

NextDownload ==
    \/ \E d \in Downloads : downloadClick(d)
    \/ \E d \in Downloads, reply \in StatusReplies : downloadStatusResponse(d, reply)
    \/ \E d \in Downloads, reply \in OutputReplies : downloadOutputResponse(d, reply)
    \/ \E d \in Downloads : downloadTimer1(d)
    \/ \E d \in Downloads : downloadTimer3(d)
    \/ newChat

SpecDownload == InitDownload /\ [][NextDownload]_vars

\* ================================================================= claims

\* C1: every call of startProcessingFlow issues exactly one POST to
\* /api/process_prompt, and issues it when its 5-second timer fires: a closure
\* whose timer is still pending has sent none, and from the moment the timer
\* fired it has sent exactly one, whatever polls, replies or resets occurred.
C1_OnePostPerJob ==
    \A j \in Jobs :
        jobs[j].posts = IF jobs[j].pc \in {"unused", "timer"} THEN 0 ELSE 1

\* a job that was reset while its timers were pending and that has a poll
\* reply outstanding has nevertheless sent its one POST
C1_Witness ==
    \E j \in Jobs :
        /\ jobs[j].posts = 1
        /\ jobs[j].polls > 0
        /\ sinceReset = "timers"

\* C2: once the finalize callback of a job has started, the job's poll
\* callback starts no further GET /api/check_status.
C2_NoPollAfterFinalize ==
    \A j \in Jobs : jobs[j].latePolls = 0

\* finalize has begun while an earlier poll of the job is still in flight,
\* and the interval is no longer armed
C2_Witness ==
    \E j \in Jobs :
        /\ jobs[j].pc \in {"post", "status"}
        /\ jobs[j].polls > 0
        /\ ~jobs[j].interval
        /\ jobs[j].processingDone

\* C3: the download button is visible exactly when the most recent
\* reconciliation observed "completed"; never after "failed" or "unknown".
C3_DownloadIffCompleted ==
    downloadOutputBtn <=> (lastReconciled = "completed")

\* C4: a reset that runs while a job's timers are pending cancels them: until
\* the next submission, no timer of that job writes the status text or
\* touches the chat.
C4_ResetSilencesTimers ==
    (sinceReset = "timers") =>
        /\ processingStatusArea = TextCleared
        /\ chatWindow = {}

\* C5: at most one job is active (submitted, not yet reconciled) at a time.
ActiveJobs == {j \in Jobs : jobs[j].pc \in {"timer", "post", "status"}}

C5_AtMostOneActiveJob == Cardinality(ActiveJobs) <= 1

\* C6: handleFileSelection lets a file through to the reader (and so to a
\* job and the network) exactly when its name ends, ignoring case, in .txt,
\* .pdf or .docx and its size is at most 5 MiB; any other file gets a dialog
\* and changes nothing else; a job with a file payload starts only from a
\* load the handler let through.
endsWithIgnoreCase(name, suffix) ==
    /\ Len(name) >= Len(suffix)
    /\ toLowerCase(SubSeq(name, Len(name) - Len(suffix) + 1, Len(name))) = suffix

IsValidUpload(file) ==
    /\ \/ endsWithIgnoreCase(file.name, <<".", "t", "x", "t">>)
       \/ endsWithIgnoreCase(file.name, <<".", "p", "d", "f">>)
       \/ endsWithIgnoreCase(file.name, <<".", "d", "o", "c", "x">>)
    /\ file.size <= 5 * 1024 * 1024

C6_FileGate ==
    /\ [](\A i \in 1..Len(readers) : IsValidUpload(readers[i]))
    /\ [][(lastFile' # lastFile /\ lastFile' # NoFile) =>
            IF IsValidUpload(lastFile')
            THEN readers' = Append(readers, lastFile')
            ELSE /\ lastAlert' \in {"bad-type", "too-large"}
                 /\ UNCHANGED <<jobs, chatWindow, welcomeMessage, downloadOutputBtn,
                                processingStatusArea, readers, downloads>>]_vars
    /\ [][\A j \in Jobs :
            (jobs[j].pc = "unused" /\ jobs'[j].pc = "timer" /\ jobs'[j].prompt = NULL)
               => \E i \in 1..Len(readers) : readers' = DropReader(readers, i)]_vars

\* a job runs on an uploaded file, a file of exactly 5 MiB is being read,
\* and the latest selection, a 6 MiB file, was refused with the size dialog
C6_Witness ==
    /\ \E j \in Jobs : jobs[j].pc = "timer" /\ jobs[j].prompt = NULL
    /\ \E i \in 1..Len(readers) : readers[i].size = MaxFileSize
    /\ lastFile.size = 6 * MiB
    /\ lastAlert = "too-large"

\* C7: when the download handler's check_status answers "processing" or
\* "failed", the handler shows the matching dialog and returns: it never
\* requests /api/get_output and never navigates to /api/download_output.
C7_BlockedDownloadStops ==
    \A d \in Downloads :
        downloads[d].status \in {"processing", "failed"} =>
            /\ downloads[d].pc = "done"
            /\ downloads[d].dialog =
                  (IF downloads[d].status = "processing" THEN "wait-processing" ELSE "failed")
            /\ ~downloads[d].askedOutput
            /\ ~downloads[d].navigated

\* a run of the handler saw "failed" and ended with the failure dialog
C7_Witness ==
    \E d \in Downloads :
        /\ downloads[d].status = "failed"
        /\ downloads[d].dialog = "failed"
        /\ lastAlert = "failed"

C9_ExactlyOnePayloadField ==
    \A j \in Jobs :
        jobs[j].posts > 0 =>
            /\ (jobs[j].body[1] = NULL) # (jobs[j].body[2] = NULL)
            /\ jobs[j].body[1] # NULL =>
                 jobs[j].body[1] \in {trim(i) : i \in ChatInputs} \ {<<>>}

\* C10: a job's poll interval is armed exactly while the job is Submitting or
\* AwaitingCompletion, i.e. submitted with its finalize timer still pending
\* and not superseded by a reset; never while the controller is Idle after a
\* reset, Finalizing or Resolved.
C10_PollAliveIffAwaiting ==
    \A j \in Jobs :
        jobs[j].interval <=> (jobs[j].pc = "timer" /\ sinceReset = "none")

\* C11: the lifecycle state only moves forward along Idle, Submitting /
\* AwaitingCompletion, Finalizing, Resolved; the only backward step is the
\* reset, which ends in Idle; and Idle is left by a submission only.  The code
\* keeps no lifecycle variable: the controller's state is read off its live
\* closures (the least advanced one governs, since its poll loop is alive)
\* and, when none is live, off the chat (empty after a reset or at start).
lifecycleState ==
    IF \E j \in Jobs : jobs[j].pc = "timer" THEN "AwaitingCompletion"
    ELSE IF \E j \in Jobs : jobs[j].pc = "post" THEN "Finalizing"
    ELSE IF \E j \in Jobs : jobs[j].pc = "status" THEN "Resolved"
    ELSE IF chatWindow = {} THEN "Idle" ELSE "Resolved"

LifecycleRank(state) ==
    CASE state = "Idle"               -> 0
      [] state = "AwaitingCompletion" -> 1
      [] state = "Finalizing"         -> 2
      [] OTHER                        -> 3

C11_LifecycleForward ==
    /\ [][LifecycleRank(lifecycleState') < LifecycleRank(lifecycleState)
            => newChat /\ lifecycleState' = "Idle"]_vars
    /\ [][newChat => lifecycleState' = "Idle"]_vars
    /\ [][(lifecycleState = "Idle" /\ lifecycleState' # "Idle")
            => \E input \in ChatInputs : sendMessage(input)]_vars


\* a step in which a poll fetch of job j settles
PollSettles(j) == jobs[j].polls > 0 /\ jobs'[j].polls < jobs[j].polls

\* a step in which the process_prompt fetch of job j settles
PostSettles(j) == jobs[j].pc = "post" /\ jobs'[j].pc # "post"

\* a step in which the reconciling check_status of job j settles
ReconcileSettles(j) == jobs[j].pc = "status" /\ jobs'[j].pc # "status"

\* C12: once the finalize callback of a job has started, a poll of that job
\* that was still in flight does not write the status text when it settles,
\* whether it resolves or fails.
C12_LatePollSilent ==
    [][\A j \in Jobs :
          (PollSettles(j) /\ jobs[j].pc \in {"post", "status", "done", "rejected"})
             => processingStatusArea' = processingStatusArea]_vars

\* C13: after a reset, and until the next submission, a response of a job
\* that was running at the reset (poll, process_prompt or reconciliation)
\* changes neither the status text, nor the chat, nor the download button.
C13_StaleResponseDiscarded ==
    [][\A j \in Jobs :
          (sinceReset # "none" /\ sinceReset' = sinceReset
             /\ (PollSettles(j) \/ PostSettles(j) \/ ReconcileSettles(j)))
             => UNCHANGED <<processingStatusArea, chatWindow, downloadOutputBtn>>]_vars

\* C14: when the process_prompt request of a job fails, the local error
\* message is in the chat, and the job's reconciliation does not show the
\* download button, whatever status it sees.
C14_PostFailureNoDownload ==
    [][\A j \in Jobs :
          /\ (PostSettles(j) /\ jobs'[j].rendered = "error")
                => LocalError \in chatWindow'
          /\ (ReconcileSettles(j) /\ jobs[j].rendered = "error")
                => (downloadOutputBtn' => downloadOutputBtn)]_vars

\* C15: a failed request of the job flow is caught where it was issued and
\* shows up: a failed poll as the connectivity text, a failed process_prompt
\* as the local error message, a failed reconciliation as status text, chat
\* message or dialog; no callback ends rejected.
C15_FailuresCaughtAndShown ==
    /\ [][\A j \in Jobs :
            /\ PollResponse(j, NetError) => processingStatusArea' = TextBackendDown
            /\ (PostSettles(j) /\ jobs'[j].rendered = "error")
                  => LocalError \in chatWindow'
            /\ (ReconcileSettles(j) /\ lastReconciled' = NetError)
                  => \/ processingStatusArea' # processingStatusArea
                     \/ chatWindow' # chatWindow
                     \/ lastAlert' # lastAlert]_vars
    /\ [](\A j \in Jobs : jobs[j].pc # "rejected")

\* C16: a poll whose check_status fails only sets the connectivity-error
\* text: the job's interval and finalize timer stay armed (so later ticks and
\* the finalize still run), and chat and download button are untouched.
C16_PollFailureOnlyText ==
    [][\A j \in Jobs :
          PollResponse(j, NetError) =>
             /\ processingStatusArea' = TextBackendDown
             /\ UNCHANGED <<chatWindow, downloadOutputBtn>>
             /\ \A k \in Jobs :
                   /\ jobs[k].interval => jobs'[k].interval
                   /\ jobs[k].pc \in {"timer", "post", "status"} => jobs'[k].pc = jobs[k].pc]_vars

\* after a failed poll the job polled again: the connectivity text is up, the
\* next poll is in flight and the finalize timer is still pending
C16_Witness ==
    \E j \in Jobs :
        /\ processingStatusArea = TextBackendDown
        /\ jobs[j].pc = "timer"
        /\ jobs[j].interval
        /\ jobs[j].polls > 0

\* C17: the poll callback and the reconciliation map the backend status to
\* the status text by the same function: completed to the success text,
\* failed to the failure text, processing to the working text, unknown or
\* absent to the ready text, at both call sites.
StatusTextOf(status) ==
    CASE status = "completed"  -> TextCompleted
      [] status = "failed"     -> TextFailed
      [] status = "processing" -> TextWorking
      [] OTHER                 -> TextReady

C17_SameStatusMapping ==
    [][\A j \in Jobs, status \in Statuses :
          /\ PollResponse(j, status) => processingStatusArea' = StatusTextOf(status)
          /\ ReconcileResponse(j, status) => processingStatusArea' = StatusTextOf(status)]_vars

\* C18: a reconciliation that sees neither "completed" nor "failed" leaves
\* the status text and the download button as they were.
C18_ReconcileOtherStatusFrame ==
    [][\A j \in Jobs :
          (ReconcileSettles(j) /\ lastReconciled' \in Statuses \ {"completed", "failed"})
             => UNCHANGED <<processingStatusArea, downloadOutputBtn>>]_vars

\* a job reconciled as "processing" while the success text and the download
\* button of an earlier reconciliation were up, and they still are
C18_Witness ==
    /\ lastReconciled = "processing"
    /\ processingStatusArea = TextCompleted
    /\ downloadOutputBtn
    /\ ActiveJobs = {}

\* C19: the download handler navigates to /api/download_output only when its
\* check_status answered neither "processing" nor "failed" and its get_output
\* answered success true.  Every other outcome (not ready, no file, a failed
\* fetch of either request) ends the run with a dialog: no navigation, no
\* timer, status text and download button unchanged.
C19_DownloadOnlyWhenAvailable ==
    /\ [](\A d \in Downloads :
            /\ downloads[d].navigated =>
                  /\ downloads[d].status \in Statuses \ {"processing", "failed"}
                  /\ downloads[d].askedOutput
                  /\ downloads[d].dialog = "none"
            /\ downloads[d].dialog # "none" =>
                  /\ downloads[d].pc = "done"
                  /\ ~downloads[d].navigated)
    /\ [][\A d \in Downloads :
            /\ \A reply \in OutputReplies :
                  downloadOutputResponse(d, reply) =>
                     (downloads'[d].navigated <=> reply = "available")
            /\ \A reply \in {"processing", "failed", NetError} :
                  downloadStatusResponse(d, reply) => downloads'[d].dialog # "none"
            /\ downloadOutputResponse(d, "missing") => downloads'[d].dialog # "none"
            /\ downloadOutputResponse(d, NetError) => downloads'[d].dialog # "none"
            /\ (downloads[d].dialog = "none" /\ downloads'[d].dialog # "none") =>
                  /\ lastAlert' = downloads'[d].dialog
                  /\ UNCHANGED <<processingStatusArea, downloadOutputBtn>>]_vars

\* a run passed check_status, was told that no file exists, and ended with
\* the dialog; the success text and the button are as before the click
C19_Witness ==
    \E d \in Downloads :
        /\ downloads[d].pc = "done"
        /\ downloads[d].askedOutput
        /\ downloads[d].dialog = "wait-no-file"
        /\ ~downloads[d].navigated
        /\ processingStatusArea = TextCompleted
        /\ downloadOutputBtn

\* C20: a run that triggered the download writes "downloading" at once,
\* "downloaded" when its 1000 ms timeout fires and the empty text when its
\* 3000 ms timeout fires; the 3000 ms timeout is armed by the 1000 ms callback
\* only, so the run never clears the text before it wrote "downloaded".
C20_DownloadTextOrder ==
    [][\A d \in Downloads :
          /\ (~downloads[d].navigated /\ downloads'[d].navigated) =>
                /\ processingStatusArea' = TextDownloading
                /\ downloads'[d].pc = "timer1"
          /\ (downloads[d].pc = "timer1" /\ downloads'[d].pc # "timer1") =>
                /\ processingStatusArea' = TextDownloaded
                /\ downloads'[d].pc = "timer3"
          /\ (downloads[d].pc # "timer3" /\ downloads'[d].pc = "timer3") =>
                downloads[d].pc = "timer1"
          /\ (downloads[d].pc = "timer3" /\ downloads'[d].pc # "timer3") =>
                /\ processingStatusArea' = TextCleared
                /\ downloads'[d].pc = "done"]_vars

\* a run went through both timeouts and its last one cleared the text
C20_Witness ==
    \E d \in Downloads :
        /\ downloads[d].pc = "done"
        /\ downloads[d].navigated
        /\ processingStatusArea = TextCleared
        /\ downloadOutputBtn

\* C21: within one job the finalize steps are ordered: the interval is
\* cancelled and placeholder and typing indicator are out of the chat when
\* the POST is issued; the answer (or the local error) is rendered when the
\* reconciling check_status is issued; the download button is shown only by
\* a reconciliation's response.  Placeholder and typing indicator leave the
\* chat only by the job's finalize callback or by a reset, so each is removed
\* at most once; a finalize after a reset removes nothing.
C21_FinalizeOrder ==
    /\ [](\A j \in Jobs :
            /\ jobs[j].posts > 0 =>
                  /\ ~jobs[j].interval
                  /\ jobs[j].processingDone
                  /\ Placeholder(j) \notin chatWindow
                  /\ TypingIndicator(j) \notin chatWindow
            /\ jobs[j].pc \in {"status", "done", "rejected"} => jobs[j].rendered # "none")
    /\ [][\A j \in Jobs :
            /\ PostSettles(j) =>
                  /\ jobs'[j].pc = "status"
                  /\ (IF jobs'[j].rendered = "ai" THEN AiResponse ELSE LocalError)
                        \in chatWindow'
            /\ (jobs[j].pc = "timer" /\ jobs'[j].pc # "timer") =>
                  /\ jobs'[j].pc = "post"
                  /\ chatWindow' = chatWindow \ {Placeholder(j), TypingIndicator(j)}
            /\ \A el \in {Placeholder(j), TypingIndicator(j)} :
                  (el \in chatWindow /\ el \notin chatWindow') =>
                     \/ newChat
                     \/ jobs[j].pc = "timer" /\ jobs'[j].pc = "post"]_vars
    /\ [][(~downloadOutputBtn /\ downloadOutputBtn') =>
            \E j \in Jobs : ReconcileSettles(j) /\ lastReconciled' = "completed"]_vars

\* a reset cleared the chat while the job's timers were pending; the finalize
\* callback then ran on the detached elements and the answer was rendered
C21_Witness ==
    \E j \in Jobs :
        /\ jobs[j].pc = "status"
        /\ jobs[j].rendered = "ai"
        /\ sinceReset = "timers"
        /\ chatWindow = {AiResponse}

\* C22: sendMessage on an input that is empty or all blanks starts no job:
\* no chat message, no interval, no timer, no request, and the status text
\* and the download button stay as they are.
IsBlank(input) == \A i \in 1..Len(input) : input[i] = " "

C22_BlankSendNoJob ==
    [][\A input \in ChatInputs :
          (IsBlank(input) /\ sendMessage(input)) =>
             UNCHANGED <<jobs, chatWindow, welcomeMessage, downloadOutputBtn,
                         processingStatusArea, readers, downloads, lastAlert>>]_vars

\* the latest sendMessage call returned early while a job was polling
C22_Witness ==
    /\ lastMessageText = <<>>
    /\ processingStatusArea = TextWorking
    /\ \E j \in Jobs : jobs[j].pc = "timer" /\ jobs[j].interval

\* C23: every started job stops its own timers.  The finalize timer of each
\* call of startProcessingFlow eventually fires; from then on the job's
\* interval is cancelled and its placeholder and typing indicator are out of
\* the chat, whatever polls, failures, resets or other jobs did; and every
\* request of the job (poll, process_prompt, reconciliation) eventually
\* settles, so none stays pending.
RequestPending(j) == jobs[j].polls > 0 \/ jobs[j].pc \in {"post", "status"}

C23_JobStopsItsTimers ==
    /\ \A j \in Jobs : (jobs[j].pc = "timer") ~> (jobs[j].pc # "timer")
    /\ [](\A j \in Jobs :
            jobs[j].pc \in {"post", "status", "done", "rejected"} =>
               /\ ~jobs[j].interval
               /\ Placeholder(j) \notin chatWindow
               /\ TypingIndicator(j) \notin chatWindow)
    /\ \A j \in Jobs : RequestPending(j) ~> ~RequestPending(j)

\* after a reset, with a failed process_prompt behind it and an earlier poll
\* still unanswered, a job has ended with a rejected reconciliation: its
\* interval is cancelled and only the late poll is left to settle
C23_Witness ==
    \E j \in Jobs :
        /\ jobs[j].pc = "rejected"
        /\ jobs[j].rendered = "error"
        /\ jobs[j].polls > 0
        /\ ~jobs[j].interval
        /\ sinceReset # "none"

\* C24: the two delayed writes of a download run do not overwrite what a
\* later event wrote: when the 1000 ms callback runs and the text is no
\* longer "downloading", or the 3000 ms callback runs and the text is no
\* longer "downloaded" (a reset or a submission wrote it since), the
\* callback leaves the status text alone.
C24_DownloadTimersYield ==
    [][\A d \in Downloads :
          /\ (downloads[d].pc = "timer1" /\ downloads'[d].pc # "timer1"
                /\ processingStatusArea # TextDownloading)
                => processingStatusArea' = processingStatusArea
          /\ (downloads[d].pc = "timer3" /\ downloads'[d].pc # "timer3"
                /\ processingStatusArea # TextDownloaded)
                => processingStatusArea' = processingStatusArea]_vars

\* the state SpecDownload starts in is one the job flow reaches
DownloadStartReachable ==
    /\ jobs = [j \in Jobs |-> UnusedJob]
    /\ chatWindow = {UserText(<<"h", "i">>), AiResponse}
    /\ ~welcomeMessage
    /\ downloadOutputBtn
    /\ processingStatusArea = TextCompleted
    /\ lastReconciled = "completed"
    /\ sinceReset = "none"

====
